---- MODULE Spec2Model ----
(***************************************************************************)
(* Model of the workflow entry points of crew_mcp_only.py and              *)
(* crews_manager.py: scoped acquisition of the MCP tool providers, the     *)
(* capability lookups that build the agents, the sequential kickoff of     *)
(* the crew's task list, the post-run trim_orphan_nodes and the            *)
(* try/except wrapping of failures.                                        *)
(***************************************************************************)
EXTENDS Naturals, Integers, Sequences, FiniteSets, TLC

VARIABLES active, pc, req, tools, provider, idx, current, outputs, result,
          exc, origin, outcome, log,
          offered,    \* the requests each caller may issue
          adapter,    \* the MCPServerAdapter instance a call's with statement holds
          ctx,        \* the context outputs handed to the stage a call started last
          console,    \* the last text a call's callbacks printed
          store,      \* the graph in the Neo4j database
          prev,       \* the graph before the last trim_orphan_nodes
          trims       \* times trim_orphan_nodes was applied to the database: 0, 1, 2 for more

vars == <<active, pc, req, tools, provider, idx, current, outputs, result,
          exc, origin, outcome, log, offered, adapter, ctx, console,
          store, prev, trims>>

\* ------------------------------------------------------------------ bounds
\* at most this many capability names are absent from the acquired map
MaxMissing == 1

\* node ids of the database graphs
MaxNodes == 3

\* ---------------------------------------------------------------- universe
Calls == {"a", "b"}

Impls == {"crew_mcp_only", "crews_manager"}

Workflows == {"create_mermaid_graph", "edit_mermaid_graph", "generate_data",
              "generate_data_for_usecase", "expand_data_for_usecase"}

None == "None"

\* tool names the two MCP servers expose (the comment under server_params)
AvailableToolNames ==
    {"validate_node", "validate_relationship", "validate_data_model",
     "load_from_arrows_json", "export_to_arrows_json", "get_mermaid_config_str",
     "get_node_cypher_ingest_query", "get_relationship_cypher_ingest_query",
     "get_constraints_cypher_queries", "get_neo4j_schema", "read_neo4j_cypher",
     "write_neo4j_cypher"}

\* the task factories of the two modules
StageNames ==
    {"read_data_task", "create_mermaid_graph_task", "edit_mermaid_graph_task",
     "generate_cypher_task", "generate_cypher_task_with_context",
     "generate_data_task", "generate_data_task_with_context",
     "expanded_mermaid_graph_task"}

\* opaque texts a stage may report (the upload stage's status report included)
Texts == {"upload succeeded", "upload failed"}

\* opaque messages of a failing invocation
Msgs == {"m1", "m2"}

\* the elements of a sequence
RECURSIVE SeqToSet(_)
SeqToSet(s) == IF s = <<>> THEN {} ELSE {Head(s)} \cup SeqToSet(Tail(s))

\* ----------------------------------------------------------------- catalog
\* tools["..."] subscripts of a workflow body, in evaluation order
ReadLookups == <<"get_neo4j_schema", "read_neo4j_cypher">>
ModelLookups == <<"validate_data_model", "get_mermaid_config_str">>
CypherLookups == <<"get_node_cypher_ingest_query", "get_relationship_cypher_ingest_query">>
WriteLookups == <<"write_neo4j_cypher">>

\* crews_manager.generate_data_for_usecase calls the undefined name
\* create_mermaid_graph_task_context_only after building its second agent
UndefinedName(impl, wf) ==
    impl = "crews_manager" /\ wf = "generate_data_for_usecase"

Lookups(impl, wf) ==
    CASE wf = "create_mermaid_graph" -> ReadLookups \o ModelLookups
      [] wf = "edit_mermaid_graph" -> ModelLookups
      [] wf = "generate_data" ->
            ReadLookups \o <<"get_mermaid_config_str">> \o CypherLookups \o WriteLookups
      [] wf \in {"generate_data_for_usecase", "expand_data_for_usecase"} ->
            IF UndefinedName(impl, wf)
            THEN ReadLookups \o ModelLookups
            ELSE ReadLookups \o ModelLookups \o CypherLookups \o WriteLookups

\* the tasks=[...] list handed to Crew(...)
TaskList(impl, wf) ==
    CASE wf = "create_mermaid_graph" -> <<"read_data_task", "create_mermaid_graph_task">>
      [] wf = "edit_mermaid_graph" -> <<"edit_mermaid_graph_task">>
      [] wf = "generate_data" -> <<"read_data_task", "generate_data_task">>
      [] wf = "generate_data_for_usecase" ->
            <<"read_data_task", "create_mermaid_graph_task",
              "generate_cypher_task_with_context", "generate_data_task_with_context">>
      [] wf = "expand_data_for_usecase" ->
            <<"read_data_task", "expanded_mermaid_graph_task",
              "generate_cypher_task_with_context", "generate_data_task_with_context">>

\* context=[...] of the tasks declared in tasks.yaml of crews/ (CreateMermaidCrew)
YamlContext(stage) ==
    IF stage = "create_mermaid_graph_task" THEN {"read_data_task"} ELSE {}

\* context=[...] each task is constructed with in the workflow body
Context(impl, wf, stage) ==
    CASE wf = "create_mermaid_graph" ->
            IF impl = "crews_manager" THEN YamlContext(stage)
            ELSE IF stage = "create_mermaid_graph_task" THEN {"read_data_task"} ELSE {}
      [] wf = "edit_mermaid_graph" -> {}
      [] wf = "generate_data" ->
            CASE stage = "generate_cypher_task" -> {"read_data_task"}
              [] stage = "generate_data_task" -> {"generate_cypher_task"}
              [] OTHER -> {}
      [] wf = "generate_data_for_usecase" ->
            CASE stage = "create_mermaid_graph_task" -> {"read_data_task"}
              [] stage = "generate_cypher_task_with_context" -> {"create_mermaid_graph_task"}
              [] stage = "generate_data_task_with_context" -> {"generate_cypher_task_with_context"}
              [] OTHER -> {}
      [] wf = "expand_data_for_usecase" ->
            CASE stage = "expanded_mermaid_graph_task" -> {"read_data_task"}
              [] stage = "generate_cypher_task_with_context" -> {"expanded_mermaid_graph_task"}
              [] stage = "generate_data_task_with_context" -> {"generate_cypher_task_with_context"}
              [] OTHER -> {}

\* tools=[...] of the agent that the task is constructed with
AgentTools(impl, wf, stage) ==
    CASE wf = "create_mermaid_graph" ->
            IF impl = "crews_manager" THEN SeqToSet(ReadLookups \o ModelLookups)
            ELSE IF stage = "read_data_task" THEN SeqToSet(ReadLookups)
            ELSE SeqToSet(ModelLookups)
      [] wf = "edit_mermaid_graph" -> SeqToSet(ModelLookups)
      [] wf = "generate_data" ->
            CASE stage = "read_data_task" ->
                    SeqToSet(ReadLookups) \cup {"get_mermaid_config_str"}
              [] stage = "generate_cypher_task" -> SeqToSet(CypherLookups)
              [] OTHER -> SeqToSet(WriteLookups)
      [] wf \in {"generate_data_for_usecase", "expand_data_for_usecase"} ->
            CASE stage = "read_data_task" -> SeqToSet(ReadLookups)
              [] stage \in {"create_mermaid_graph_task", "expanded_mermaid_graph_task"} ->
                    SeqToSet(ModelLookups)
              [] stage = "generate_cypher_task_with_context" -> SeqToSet(CypherLookups)
              [] OTHER -> SeqToSet(WriteLookups)

\* variant: create_mermaid_graph wraps its body like the other workflows
HasTryEverywhere(wf) == wf \in Workflows

\* the workflow body sits in try/except Exception
HasTry(wf) == wf # "create_mermaid_graph"

\* variant: every workflow that uploads data trims the database after it
HasCleanupAfterAnyUpload(wf) ==
    wf \in {"generate_data", "generate_data_for_usecase", "expand_data_for_usecase"}

\* the workflow body calls trim_orphan_nodes() after kickoff
HasCleanup(wf) == wf \in {"generate_data_for_usecase", "expand_data_for_usecase"}

\* variant: the trim is skipped unless the upload reports success
CleanupGuardOnStatus(text) == text = "upload succeeded"

\* trim_orphan_nodes() is called whatever the upload stage reported
CleanupGuard(text) == TRUE

\* ------------------------------------------------------------------ errors
NoError == [kind |-> "none", msg |-> "none", site |-> "none", cause |-> "none"]

Raised(kind, msg, site) == [kind |-> kind, msg |-> msg, site |-> site, cause |-> "none"]

\* variant: the new exception does not quote the one it replaces
WrapDropsCause(e) == [kind |-> "Exception", msg |-> "none", site |-> "none", cause |-> "none"]

\* raise Exception(f"An error occurred while running the crew: {str(e)}\n\nTraceback:\n{error_trace}")
\* the new exception is a plain Exception; its text embeds str(e) and the
\* formatted traceback (type of e and the line that raised)
Wrap(e) == [kind |-> "Exception", msg |-> e.msg, site |-> e.site, cause |-> e.kind]

\* the exception that leaves crew.kickoff when the invocation of a stage
\* raises class k with message m: nothing in the workflow body adds the stage
StageError(stage, k, m) == Raised(k, m, "kickoff")

\* what the caller receives for an exception e raised in the workflow body
Deliver(wf, e) == IF HasTry(wf) THEN Wrap(e) ELSE e

NoOutcome == [tag |-> "none", value |-> None, error |-> NoError]

\* ----------------------------------------------------------------- helpers
\* index of the first looked-up name that is not in the map, 0 if none
RECURSIVE FirstMissingFrom(_, _, _)
FirstMissingFrom(names, map, i) ==
    IF i > Len(names) THEN 0
    ELSE IF names[i] \notin map THEN i
    ELSE FirstMissingFrom(names, map, i + 1)

FirstMissing(names, map) == FirstMissingFrom(names, map, 1)

Event(ev, arg) == [ev |-> ev, arg |-> arg]

RECURSIVE CountEv(_, _)
CountEv(s, ev) ==
    IF s = <<>> THEN 0
    ELSE (IF Head(s).ev = ev THEN 1 ELSE 0) + CountEv(Tail(s), ev)

RECURSIVE ArgsOf(_, _)
ArgsOf(s, ev) ==
    IF s = <<>> THEN <<>>
    ELSE (IF Head(s).ev = ev THEN <<Head(s).arg>> ELSE <<>>) \o ArgsOf(Tail(s), ev)

Impl(c) == req[c].impl
Wf(c) == req[c].wf

\* where control goes when an exception leaves the statements of the body
HandlerPc(wf) == IF HasTry(wf) THEN "except" ELSE "exit"

\* the endpoint functions of main.py
Endpoints ==
    {"generate_mermaid_graph_mcp_only_endpoint", "edit_mermaid_graph_mcp_only_endpoint",
     "generate_data_endpoint_mcp_only_endpoint", "generate_data_mcp_only_endpoint",
     "expand_data_mcp_only_endpoint"}

\* the workflow function of crew_mcp_only that the body of an endpoint calls
Dispatch(ep) ==
    CASE ep = "generate_mermaid_graph_mcp_only_endpoint" -> "create_mermaid_graph"
      [] ep = "edit_mermaid_graph_mcp_only_endpoint" -> "edit_mermaid_graph"
      [] ep = "generate_data_endpoint_mcp_only_endpoint" -> "generate_data"
      [] ep = "generate_data_mcp_only_endpoint" -> "generate_data_for_usecase"
      [] ep = "expand_data_mcp_only_endpoint" -> "generate_data_for_usecase"

\* ------------------------------------------------------------------- store
Nodes == 1..MaxNodes

\* a graph: node ids and relationships (start node, end node) between them
WellFormed(g) == \A r \in g.rels : r[1] \in g.nodes /\ r[2] \in g.nodes

EmptyGraph == [nodes |-> {}, rels |-> {}]

\* the count of trims, kept up to "more than once"
Twice(n) == IF n < 2 THEN n + 1 ELSE n

\* n has a relationship in g, in either direction: the pattern (n)--()
HasRelationship(g, n) == \E r \in g.rels : r[1] = n \/ r[2] = n

\* variant: the query deletes one node without relationships (LIMIT 1)
TrimOneOrphan(g) ==
    LET orphans == {n \in g.nodes : ~HasRelationship(g, n)} IN
    IF orphans = {} THEN g
    ELSE [nodes |-> g.nodes \ {CHOOSE n \in orphans : TRUE}, rels |-> g.rels]

\* variant: the pattern asks for a relationship with another node and the
\* nodes are deleted with their relationships (DETACH DELETE)
TrimUnconnectedNodes(g) ==
    LET keep == {n \in g.nodes :
                    \E r \in g.rels : r[1] # r[2] /\ (r[1] = n \/ r[2] = n)}
    IN [nodes |-> keep, rels |-> {r \in g.rels : r[1] \in keep /\ r[2] \in keep}]

\* MATCH (n) WHERE NOT (n)--() DELETE n
TrimOrphanNodes(g) ==
    [nodes |-> {n \in g.nodes : HasRelationship(g, n)}, rels |-> g.rels]

\* data an upload stage may write through write_neo4j_cypher: nothing, a
\* lone node, a connected pair, a connected pair and a lone node, a node
\* related to itself
Patches ==
    {EmptyGraph,
     [nodes |-> {1}, rels |-> {}],
     [nodes |-> {1, 2}, rels |-> {<<1, 2>>}],
     [nodes |-> {1, 2, 3}, rels |-> {<<1, 2>>}],
     [nodes |-> {3}, rels |-> {<<3, 3>>}]}

Write(g, patch) ==
    [nodes |-> g.nodes \cup patch.nodes, rels |-> g.rels \cup patch.rels]

\* the stages whose agent holds write_neo4j_cypher
IsUpload(stage) == stage \in {"generate_data_task", "generate_data_task_with_context"}

\* -------------------------------------------------------------------- init
\* every workflow function called directly, and every endpoint of main.py
AllRequests ==
    {[impl |-> i, wf |-> w, endpoint |-> None] : i \in Impls, w \in Workflows}
    \cup {[impl |-> "crew_mcp_only", wf |-> Dispatch(ep), endpoint |-> ep] : ep \in Endpoints}

InitWith(act) ==
    /\ active = act
    /\ adapter = [c \in Calls |-> None]
    /\ ctx = [c \in Calls |-> {}]
    /\ console = [c \in Calls |-> None]
    /\ trims = 0
    /\ pc = [c \in Calls |-> "idle"]
    /\ req = [c \in Calls |-> [impl |-> None, wf |-> None, endpoint |-> None]]
    /\ tools = [c \in Calls |-> {}]
    /\ provider = [c \in Calls |-> "none"]
    /\ idx = [c \in Calls |-> 0]
    /\ current = [c \in Calls |-> None]
    /\ outputs = [c \in Calls |-> [s \in StageNames |-> None]]
    /\ result = [c \in Calls |-> None]
    /\ exc = [c \in Calls |-> NoError]
    /\ origin = [c \in Calls |-> NoError]
    /\ outcome = [c \in Calls |-> NoOutcome]
    /\ log = [c \in Calls |-> <<>>]

Init ==
    /\ InitWith({"a"})
    /\ offered = [c \in Calls |-> AllRequests]
    /\ store = EmptyGraph
    /\ prev = EmptyGraph

\* names some workflow looks up; only their absence can matter
LookedUpNames ==
    SeqToSet(ReadLookups \o ModelLookups \o CypherLookups \o WriteLookups)

\* exception classes an agent invocation / the neo4j driver may raise
StageExcKinds == {"APIError", "ValueError"}
CleanupExcKinds == {"ServiceUnavailable", "ValueError"}

\* ----------------------------------------------------------------- actions
\* a request selects one of the workflow functions of one of the modules
Call(c) ==
    /\ c \in active
    /\ pc[c] = "idle"
    /\ \E impl \in Impls, wf \in Workflows :
          /\ [impl |-> impl, wf |-> wf, endpoint |-> None] \in offered[c]
          /\ req' = [req EXCEPT ![c] = [impl |-> impl, wf |-> wf, endpoint |-> None]]
    /\ pc' = [pc EXCEPT ![c] = "enter"]
    /\ provider' = [provider EXCEPT ![c] = "launching"]
    /\ log' = [log EXCEPT ![c] = Append(@, Event("call", None))]
    /\ UNCHANGED <<active, offered, adapter, ctx, console, store, prev, trims, tools, idx, current, outputs, result, exc, origin, outcome>>

\* an HTTP request reaches one of the /mcp_only endpoints, which calls the
\* workflow function it imported from crew_mcp_only
Request(c) ==
    /\ c \in active
    /\ pc[c] = "idle"
    /\ \E ep \in Endpoints :
          /\ [impl |-> "crew_mcp_only", wf |-> Dispatch(ep), endpoint |-> ep] \in offered[c]
          /\ req' = [req EXCEPT ![c] =
                       [impl |-> "crew_mcp_only", wf |-> Dispatch(ep), endpoint |-> ep]]
    /\ pc' = [pc EXCEPT ![c] = "enter"]
    /\ provider' = [provider EXCEPT ![c] = "launching"]
    /\ log' = [log EXCEPT ![c] = Append(@, Event("call", None))]
    /\ UNCHANGED <<active, offered, adapter, ctx, console, store, prev, trims, tools, idx, current, outputs, result, exc, origin, outcome>>

\* variant: one adapter, created once for the module, serves every call
AdapterSingleton(c) == "shared"

\* MCPServerAdapter(server_params) constructs a new adapter, with its own
\* server processes, each time a with statement is entered
AdapterInstance(c) == c

\* with MCPServerAdapter(server_params) as tools: the servers start and
\* expose their tools
Acquire(c) ==
    /\ pc[c] = "enter"
    /\ \E missing \in SUBSET LookedUpNames :
          /\ Cardinality(missing) <= MaxMissing
          /\ tools' = [tools EXCEPT ![c] = AvailableToolNames \ missing]
    /\ adapter' = [adapter EXCEPT ![c] = AdapterInstance(c)]
    /\ provider' = [provider EXCEPT ![c] = "ready"]
    /\ pc' = [pc EXCEPT ![c] = "build"]
    /\ log' = [log EXCEPT ![c] = Append(@, Event("acquire", "ok"))]
    /\ UNCHANGED <<active, offered, ctx, console, store, prev, trims, req, idx, current, outputs, result, exc, origin, outcome>>

\* MCPServerAdapter(server_params) raises: the with body is never entered
\* and the exception reaches the caller as it is
AcquireFail(c) ==
    /\ pc[c] = "enter"
    /\ \E m \in Msgs :
          LET e == Raised("RuntimeError", m, "MCPServerAdapter") IN
          /\ origin' = [origin EXCEPT ![c] = e]
          /\ outcome' = [outcome EXCEPT ![c] =
                            [tag |-> "raise", value |-> None, error |-> e]]
    /\ provider' = [provider EXCEPT ![c] = "failed"]
    /\ pc' = [pc EXCEPT ![c] = "raised"]
    /\ log' = [log EXCEPT ![c] = Append(Append(@, Event("acquire", "failed")),
                                        Event("raise", None))]
    /\ UNCHANGED <<active, offered, adapter, ctx, console, store, prev, trims, req, tools, idx, current, outputs, result, exc>>

\* variant: the capabilities are bound lazily, nothing is looked up before
\* the crew is started
BuildLazy(c) ==
    /\ pc[c] = "build"
    /\ pc' = [pc EXCEPT ![c] = "kickoff"]
    /\ UNCHANGED <<active, offered, adapter, ctx, console, store, prev, trims, req, tools, provider, idx, current, outputs, result,
                   exc, origin, outcome, log>>

\* variant: every agent opens the tool servers again for its own tools
BuildReacquires(c) ==
    /\ pc[c] = "build"
    /\ LET names == Lookups(Impl(c), Wf(c))
           k == FirstMissing(names, tools[c])
           done == IF k = 0 THEN names ELSE SubSeq(names, 1, k)
           evs == [i \in 1..(2 * Len(done)) |->
                     IF i % 2 = 1 THEN Event("acquire", "ok")
                     ELSE Event("lookup", done[i \div 2])]
           e == IF k # 0 THEN Raised("KeyError", names[k], "tools")
                ELSE IF UndefinedName(Impl(c), Wf(c))
                     THEN Raised("NameError", "create_mermaid_graph_task_context_only", "body")
                     ELSE NoError
       IN /\ log' = [log EXCEPT ![c] = @ \o evs]
          /\ exc' = [exc EXCEPT ![c] = e]
          /\ origin' = [origin EXCEPT ![c] = e]
          /\ pc' = [pc EXCEPT ![c] = IF e = NoError THEN "kickoff" ELSE HandlerPc(Wf(c))]
    /\ UNCHANGED <<active, offered, adapter, ctx, console, store, prev, trims, req, tools, provider, idx, current, outputs, result, outcome>>

\* the statements from the first mcp_agent([tools[...]]) to Crew(...):
\* every tools[name] subscript is evaluated here, in order; the first name
\* that is not in the collection raises KeyError
Build(c) ==
    /\ pc[c] = "build"
    /\ LET names == Lookups(Impl(c), Wf(c))
           k == FirstMissing(names, tools[c])
           done == IF k = 0 THEN names ELSE SubSeq(names, 1, k)
           evs == [i \in 1..Len(done) |-> Event("lookup", done[i])]
           e == IF k # 0 THEN Raised("KeyError", names[k], "tools")
                ELSE IF UndefinedName(Impl(c), Wf(c))
                     THEN Raised("NameError", "create_mermaid_graph_task_context_only", "body")
                     ELSE NoError
       IN /\ log' = [log EXCEPT ![c] = @ \o evs]
          /\ exc' = [exc EXCEPT ![c] = e]
          /\ origin' = [origin EXCEPT ![c] = e]
          /\ pc' = [pc EXCEPT ![c] = IF e = NoError THEN "kickoff" ELSE HandlerPc(Wf(c))]
    /\ UNCHANGED <<active, offered, adapter, ctx, console, store, prev, trims, req, tools, provider, idx, current, outputs, result, outcome>>

\* the provider states after the adapter ad has stopped its servers
Stopped(ad) ==
    [d \in Calls |-> IF adapter[d] = ad /\ provider[d] = "ready"
                     THEN "terminated" ELSE provider[d]]

\* variant: the crew is built inside the with block and started after it
KickoffOutsideWith(c) ==
    /\ pc[c] = "kickoff"
    /\ provider' = Stopped(adapter[c])
    /\ idx' = [idx EXCEPT ![c] = 1]
    /\ pc' = [pc EXCEPT ![c] = "next"]
    /\ log' = [log EXCEPT ![c] = Append(@, Event("kickoff", None))]
    /\ UNCHANGED <<active, offered, adapter, ctx, console, store, prev, trims, req,
                   tools, current, outputs, result, exc, origin, outcome>>

\* result = crew.kickoff(inputs=inputs): entry
Kickoff(c) ==
    /\ pc[c] = "kickoff"
    /\ idx' = [idx EXCEPT ![c] = 1]
    /\ pc' = [pc EXCEPT ![c] = "next"]
    /\ log' = [log EXCEPT ![c] = Append(@, Event("kickoff", None))]
    /\ UNCHANGED <<active, offered, adapter, ctx, console, store, prev, trims, req, tools, provider, current, outputs, result, exc, origin, outcome>>

\* the outputs of the tasks in stage's context list that have one; the Task
\* objects are the ones this call constructed
ContextOutputs(c, stage) ==
    {[from |-> c, stage |-> d, text |-> outputs[c][d]] :
        d \in {x \in Context(Impl(c), Wf(c), stage) : outputs[c][x] # None}}

\* variant: tasks are started without waiting for the running one
StartStageAsync(c) ==
    /\ pc[c] \in {"next", "stage"}
    /\ LET k == IF pc[c] = "stage" THEN idx[c] + 1 ELSE idx[c]
       IN /\ k <= Len(TaskList(Impl(c), Wf(c)))
          /\ idx' = [idx EXCEPT ![c] = k]
          /\ current' = [current EXCEPT ![c] = TaskList(Impl(c), Wf(c))[k]]
          /\ ctx' = [ctx EXCEPT ![c] = ContextOutputs(c, TaskList(Impl(c), Wf(c))[k])]
          /\ log' = [log EXCEPT ![c] = Append(@, Event("start", TaskList(Impl(c), Wf(c))[k]))]
    /\ pc' = [pc EXCEPT ![c] = "stage"]
    /\ UNCHANGED <<active, offered, adapter, console, store, prev, trims, req, tools, provider, outputs, result, exc, origin, outcome>>

\* Process.sequential: the next task of the list is handed to its agent
StartStage(c) ==
    /\ pc[c] = "next"
    /\ idx[c] <= Len(TaskList(Impl(c), Wf(c)))
    /\ current' = [current EXCEPT ![c] = TaskList(Impl(c), Wf(c))[idx[c]]]
    /\ ctx' = [ctx EXCEPT ![c] = ContextOutputs(c, TaskList(Impl(c), Wf(c))[idx[c]])]
    /\ pc' = [pc EXCEPT ![c] = "stage"]
    /\ log' = [log EXCEPT ![c] = Append(@, Event("start", TaskList(Impl(c), Wf(c))[idx[c]]))]
    /\ UNCHANGED <<active, offered, adapter, console, store, prev, trims, req, tools, provider, idx, outputs, result, exc, origin, outcome>>

\* the agents and tasks of the call carry log_step_callback and
\* log_task_callback: all but the crews of CreateMermaidCrew / EditMermaidCrew
Observed(impl, wf) ==
    ~(impl = "crews_manager" /\ wf \in {"create_mermaid_graph", "edit_mermaid_graph"})

\* the agent's invocation returns a text, recorded as the task's output
FinishStage(c) ==
    /\ pc[c] = "stage"
    /\ \E t \in Texts :
          /\ outputs' = [outputs EXCEPT ![c][current[c]] = t]
          /\ log' = [log EXCEPT ![c] = Append(@, Event("finish", current[c]))]
    /\ IF IsUpload(current[c])
       THEN \E patch \in Patches : store' = Write(store, patch)
       ELSE store' = store
    /\ idx' = [idx EXCEPT ![c] = @ + 1]
    /\ current' = [current EXCEPT ![c] = None]
    /\ pc' = [pc EXCEPT ![c] = IF Observed(Impl(c), Wf(c)) THEN "callback" ELSE "next"]
    /\ UNCHANGED <<active, offered, adapter, ctx, console, prev, trims, req, tools, provider, result, exc, origin, outcome>>

\* step_callback=log_step_callback: print after a step of the agent
StepCallback(c) ==
    /\ pc[c] = "stage"
    /\ Observed(Impl(c), Wf(c))
    /\ console' = [console EXCEPT ![c] = "Step completed!"]
    /\ UNCHANGED <<active, pc, req, tools, provider, idx, current, outputs, result,
                   exc, origin, outcome, log, offered, adapter, ctx, store, prev, trims>>

\* variant: the callback reads an attribute its argument lacks and raises
TaskCallbackRaises(c) ==
    /\ pc[c] = "callback"
    /\ console' = [console EXCEPT ![c] = "Task completed!"]
    /\ exc' = [exc EXCEPT ![c] = Raised("AttributeError", "__dict__", "kickoff")]
    /\ origin' = [origin EXCEPT ![c] = Raised("AttributeError", "__dict__", "kickoff")]
    /\ pc' = [pc EXCEPT ![c] = HandlerPc(Wf(c))]
    /\ UNCHANGED <<active, req, tools, provider, idx, current, outputs, result,
                   outcome, log, offered, adapter, ctx, store, prev, trims>>

\* callback=log_task_callback: print after the task has its output
TaskCallback(c) ==
    /\ pc[c] = "callback"
    /\ console' = [console EXCEPT ![c] = "Task completed!"]
    /\ pc' = [pc EXCEPT ![c] = "next"]
    /\ UNCHANGED <<active, req, tools, provider, idx, current, outputs, result,
                   exc, origin, outcome, log, offered, adapter, ctx, store, prev, trims>>

\* variant: the failure is recorded and the next task is run all the same
FailStageContinues(c) ==
    /\ pc[c] = "stage"
    /\ \E k \in StageExcKinds, m \in Msgs :
          /\ exc' = [exc EXCEPT ![c] = Raised(k, m, "kickoff")]
          /\ origin' = [origin EXCEPT ![c] = Raised(k, m, "kickoff")]
    /\ log' = [log EXCEPT ![c] = Append(@, Event("fail", current[c]))]
    /\ current' = [current EXCEPT ![c] = None]
    /\ idx' = [idx EXCEPT ![c] = @ + 1]
    /\ pc' = [pc EXCEPT ![c] = "next"]
    /\ UNCHANGED <<active, offered, adapter, ctx, console, store, prev, trims, req, tools, provider, outputs, result, outcome>>

\* variant: a failed invocation is attempted again
FailStageRetries(c) ==
    /\ pc[c] = "stage"
    /\ log' = [log EXCEPT ![c] = Append(@, Event("fail", current[c]))]
    /\ current' = [current EXCEPT ![c] = None]
    /\ pc' = [pc EXCEPT ![c] = "next"]
    /\ UNCHANGED <<active, offered, adapter, ctx, console, store, prev, trims, req, tools, provider, idx, outputs, result, exc, origin, outcome>>

\* variant: the trim stands in a finally clause and runs after a failed stage
FailStageRunsCleanup(c) ==
    /\ pc[c] = "stage"
    /\ \E k \in StageExcKinds, m \in Msgs :
          /\ exc' = [exc EXCEPT ![c] = StageError(current[c], k, m)]
          /\ origin' = [origin EXCEPT ![c] = StageError(current[c], k, m)]
    /\ log' = [log EXCEPT ![c] = Append(@, Event("fail", current[c]))]
    /\ current' = [current EXCEPT ![c] = None]
    /\ pc' = [pc EXCEPT ![c] = IF HasCleanup(Wf(c)) THEN "cleanup" ELSE HandlerPc(Wf(c))]
    /\ UNCHANGED <<active, offered, adapter, ctx, console, store, prev, trims, req, tools, provider, idx, outputs, result, outcome>>

\* the agent's invocation raises: the exception leaves crew.kickoff
FailStage(c) ==
    /\ pc[c] = "stage"
    /\ \E k \in StageExcKinds, m \in Msgs :
          /\ exc' = [exc EXCEPT ![c] = StageError(current[c], k, m)]
          /\ origin' = [origin EXCEPT ![c] = StageError(current[c], k, m)]
    /\ log' = [log EXCEPT ![c] = Append(@, Event("fail", current[c]))]
    /\ current' = [current EXCEPT ![c] = None]
    /\ pc' = [pc EXCEPT ![c] = HandlerPc(Wf(c))]
    /\ UNCHANGED <<active, offered, adapter, ctx, console, store, prev, trims, req, tools, provider, idx, outputs, result, outcome>>

\* crew.kickoff returns the output of the last task of the list
KickoffReturn(c) ==
    /\ pc[c] = "next"
    /\ idx[c] > Len(TaskList(Impl(c), Wf(c)))
    /\ LET ts == TaskList(Impl(c), Wf(c))
           r == outputs[c][ts[Len(ts)]]
       IN /\ result' = [result EXCEPT ![c] = r]
          /\ pc' = [pc EXCEPT ![c] =
                     IF HasCleanup(Wf(c)) /\ CleanupGuard(r) THEN "cleanup" ELSE "exit"]
    /\ UNCHANGED <<active, offered, adapter, ctx, console, store, prev, trims, req, tools, provider, idx, current, outputs, exc, origin, outcome, log>>

\* variant: the trim is called after the with block has been left
CleanupOutsideWith(c) ==
    /\ pc[c] = "cleanup"
    /\ provider' = Stopped(adapter[c])
    /\ store' = TrimOrphanNodes(store)
    /\ prev' = store
    /\ trims' = Twice(trims)
    /\ pc' = [pc EXCEPT ![c] = "exit"]
    /\ log' = [log EXCEPT ![c] = Append(Append(@, Event("release", None)),
                                        Event("cleanup", "ok"))]
    /\ UNCHANGED <<active, offered, adapter, ctx, console, req, tools, idx, current,
                   outputs, result, exc, origin, outcome>>

\* trim_orphan_nodes() returns
Cleanup(c) ==
    /\ pc[c] = "cleanup"
    /\ store' = TrimOrphanNodes(store)
    /\ prev' = store
    /\ trims' = Twice(trims)
    /\ pc' = [pc EXCEPT ![c] = "exit"]
    /\ log' = [log EXCEPT ![c] = Append(@, Event("cleanup", "ok"))]
    /\ UNCHANGED <<active, offered, adapter, ctx, console, req, tools, provider, idx, current, outputs, result, exc, origin, outcome>>

\* variant: a failure of the trim is caught and dropped
CleanupFailSwallowed(c) ==
    /\ pc[c] = "cleanup"
    /\ \E k \in CleanupExcKinds, m \in Msgs :
          origin' = [origin EXCEPT ![c] = Raised(k, m, "trim_orphan_nodes")]
    /\ pc' = [pc EXCEPT ![c] = "exit"]
    /\ log' = [log EXCEPT ![c] = Append(@, Event("cleanup", "failed"))]
    /\ UNCHANGED <<active, offered, adapter, ctx, console, store, prev, trims, req, tools, provider, idx, current, outputs, result, exc, outcome>>

\* trim_orphan_nodes() raises: before the query ran (driver construction,
\* execute_query) or after the database committed it (the reply is lost)
CleanupFail(c) ==
    /\ pc[c] = "cleanup"
    /\ \E k \in CleanupExcKinds, m \in Msgs :
          /\ exc' = [exc EXCEPT ![c] = Raised(k, m, "trim_orphan_nodes")]
          /\ origin' = [origin EXCEPT ![c] = Raised(k, m, "trim_orphan_nodes")]
    /\ \E committed \in BOOLEAN :
          IF committed
          THEN store' = TrimOrphanNodes(store) /\ prev' = store /\ trims' = Twice(trims)
          ELSE UNCHANGED <<store, prev, trims>>
    /\ pc' = [pc EXCEPT ![c] = HandlerPc(Wf(c))]
    /\ log' = [log EXCEPT ![c] = Append(@, Event("cleanup", "failed"))]
    /\ UNCHANGED <<active, offered, adapter, ctx, console, req, tools, provider, idx, current, outputs, result, outcome>>

\* variant: the handler prints the traceback and does not raise
ExceptSwallows(c) ==
    /\ pc[c] = "except"
    /\ exc' = [exc EXCEPT ![c] = NoError]
    /\ pc' = [pc EXCEPT ![c] = "exit"]
    /\ log' = [log EXCEPT ![c] = Append(@, Event("except", None))]
    /\ UNCHANGED <<active, offered, adapter, ctx, console, store, prev, trims, req, tools, provider, idx, current, outputs, result, origin, outcome>>

\* variant: the handler hands back the result kickoff has already returned
ExceptReturnsResult(c) ==
    /\ pc[c] = "except"
    /\ exc' = [exc EXCEPT ![c] = IF result[c] # None THEN NoError ELSE Wrap(@)]
    /\ pc' = [pc EXCEPT ![c] = "exit"]
    /\ log' = [log EXCEPT ![c] = Append(@, Event("except", None))]
    /\ UNCHANGED <<active, offered, adapter, ctx, console, store, prev, trims, req, tools, provider, idx, current, outputs, result, origin, outcome>>

\* except Exception as e: print the traceback, raise Exception(...)
Except(c) ==
    /\ pc[c] = "except"
    /\ exc' = [exc EXCEPT ![c] = Wrap(@)]
    /\ pc' = [pc EXCEPT ![c] = "exit"]
    /\ log' = [log EXCEPT ![c] = Append(@, Event("except", None))]
    /\ UNCHANGED <<active, offered, adapter, ctx, console, store, prev, trims, req, tools, provider, idx, current, outputs, result, origin, outcome>>

\* variant: the servers are stopped on the normal path only
ExitLeaksOnError(c) ==
    /\ pc[c] = "exit"
    /\ IF exc[c] = NoError
       THEN /\ provider' = Stopped(adapter[c])
            /\ outcome' = [outcome EXCEPT ![c] =
                              [tag |-> "return", value |-> result[c], error |-> NoError]]
            /\ pc' = [pc EXCEPT ![c] = "returned"]
            /\ log' = [log EXCEPT ![c] = Append(Append(@, Event("release", None)),
                                                Event("return", None))]
       ELSE /\ provider' = provider
            /\ outcome' = [outcome EXCEPT ![c] =
                              [tag |-> "raise", value |-> None, error |-> exc[c]]]
            /\ pc' = [pc EXCEPT ![c] = "raised"]
            /\ log' = [log EXCEPT ![c] = Append(@, Event("raise", None))]
    /\ UNCHANGED <<active, offered, adapter, ctx, console, store, prev, trims, req, tools, idx, current, outputs, result, exc, origin>>

\* MCPServerAdapter.__exit__ stops the servers; then the return value or the
\* exception in flight reaches the caller
Exit(c) ==
    /\ pc[c] = "exit"
    /\ provider' = Stopped(adapter[c])
    /\ IF exc[c] = NoError
       THEN /\ outcome' = [outcome EXCEPT ![c] =
                              [tag |-> "return", value |-> result[c], error |-> NoError]]
            /\ pc' = [pc EXCEPT ![c] = "returned"]
            /\ log' = [log EXCEPT ![c] = Append(Append(@, Event("release", None)),
                                                Event("return", None))]
       ELSE /\ outcome' = [outcome EXCEPT ![c] =
                              [tag |-> "raise", value |-> None, error |-> exc[c]]]
            /\ pc' = [pc EXCEPT ![c] = "raised"]
            /\ log' = [log EXCEPT ![c] = Append(Append(@, Event("release", None)),
                                                Event("raise", None))]
    /\ UNCHANGED <<active, offered, adapter, ctx, console, store, prev, trims, req, tools, idx, current, outputs, result, exc, origin>>

Step(c) ==
    \/ Call(c)
    \/ Request(c)
    \/ Acquire(c)
    \/ AcquireFail(c)
    \/ Build(c)
    \/ Kickoff(c)
    \/ StartStage(c)
    \/ StepCallback(c)
    \/ FinishStage(c)
    \/ TaskCallback(c)
    \/ FailStage(c)
    \/ KickoffReturn(c)
    \/ Cleanup(c)
    \/ CleanupFail(c)
    \/ Except(c)
    \/ Exit(c)

Next == \E c \in Calls : Step(c)

Spec == Init /\ [][Next]_vars

\* every statement of a call terminates, so a call that can take a step does
FairSpec == Spec /\ \A c \in Calls : WF_vars(Step(c))

\* two requests in flight at once: one to the generate_data_for_usecase
\* endpoint, one direct call of crew_mcp_only.create_mermaid_graph
InitTwo ==
    /\ InitWith(Calls)
    /\ offered =
          [c \in Calls |->
             IF c = "a"
             THEN {[impl |-> "crew_mcp_only", wf |-> "generate_data_for_usecase",
                    endpoint |-> "generate_data_mcp_only_endpoint"]}
             ELSE {[impl |-> "crew_mcp_only", wf |-> "create_mermaid_graph",
                    endpoint |-> None]}]
    /\ store = EmptyGraph
    /\ prev = EmptyGraph

SpecTwo == InitTwo /\ [][Next]_vars

\* trim_orphan_nodes() applied to the database, outside any workflow
TrimCall ==
    /\ store' = TrimOrphanNodes(store)
    /\ prev' = store
    /\ trims' = Twice(trims)
    /\ UNCHANGED <<active, pc, req, tools, provider, idx, current, outputs, result,
                   exc, origin, outcome, log, offered, adapter, ctx, console>>

\* the database holds any graph over Nodes; no workflow call is made
InitStore ==
    /\ InitWith({})
    /\ offered = [c \in Calls |-> {}]
    /\ \E ns \in SUBSET Nodes : \E rs \in SUBSET (ns \X ns) :
          store = [nodes |-> ns, rels |-> rs]
    /\ WellFormed(store)
    /\ prev = store

NextStore == TrimCall

SpecStore == InitStore /\ [][NextStore]_vars

\* ================================================================== claims
Ended(c) == pc[c] \in {"returned", "raised"}

Starts(c) == ArgsOf(log[c], "start")

IsPrefix(s, t) == Len(s) <= Len(t) /\ s = SubSeq(t, 1, Len(s))

\* no stage is started or finished after the first failing stage
RECURSIVE NothingAfterFail(_)
NothingAfterFail(s) ==
    IF s = <<>> THEN TRUE
    ELSE IF Head(s).ev = "fail"
         THEN CountEv(Tail(s), "start") = 0 /\ CountEv(Tail(s), "finish") = 0
                /\ CountEv(Tail(s), "fail") = 0
         ELSE NothingAfterFail(Tail(s))

\* the event ev occurs in s, and its first occurrence follows a "finish" of stage
RECURSIVE FollowsFinish(_, _, _)
FollowsFinish(s, ev, stage) ==
    IF s = <<>> THEN FALSE
    ELSE IF Head(s).ev = ev THEN FALSE
    ELSE IF Head(s) = Event("finish", stage) THEN CountEv(Tail(s), ev) >= 1
    ELSE FollowsFinish(Tail(s), ev, stage)

UploadStage == "generate_data_task_with_context"

\* C1: in every pipeline the stages start in the order of the task list, and
\* a stage is executing only when every stage of its context has an output.
C1_OrderAndDependencies ==
    \A c \in Calls :
        pc[c] # "idle" =>
            /\ IsPrefix(Starts(c), TaskList(Impl(c), Wf(c)))
            /\ current[c] # None =>
                  \A d \in Context(Impl(c), Wf(c), current[c]) : outputs[c][d] # None

\* C2: once a stage has failed no stage of that pipeline is started or
\* finished any more, and the providers of the call are released exactly
\* once (never twice, and once when the call has ended).
C2_FailureStopsPipelineAndReleases ==
    \A c \in Calls :
        CountEv(log[c], "fail") >= 1 =>
            /\ NothingAfterFail(log[c])
            /\ current[c] = None
            /\ CountEv(log[c], "release") <= 1
            /\ Ended(c) => CountEv(log[c], "release") = 1 /\ provider[c] = "terminated"

\* a call of a four-stage workflow whose second stage failed has ended
C2_Witness ==
    \E c \in Calls :
        /\ pc[c] = "raised"
        /\ CountEv(log[c], "fail") = 1
        /\ Len(Starts(c)) = 2
        /\ Len(TaskList(Impl(c), Wf(c))) = 4
        /\ CountEv(log[c], "release") = 1

\* C3: on every exit path the providers a call acquired are terminated: a
\* call whose providers became ready eventually has them terminated, they are
\* released at most once, and no call ends with its providers still ready.
C3_ProvidersTerminated ==
    /\ \A c \in Calls : (provider[c] = "ready") ~> (provider[c] = "terminated")
    /\ [](\A c \in Calls :
            /\ CountEv(log[c], "release") <= 1
            /\ Ended(c) =>
                  /\ provider[c] # "ready"
                  /\ CountEv(log[c], "release") =
                        (IF Event("acquire", "ok") \in SeqToSet(log[c]) THEN 1 ELSE 0))

\* a call that ended by a cleanup failure has its providers terminated
C3_Witness ==
    \E c \in Calls :
        /\ pc[c] = "raised"
        /\ Event("cleanup", "failed") \in SeqToSet(log[c])
        /\ provider[c] = "terminated"

\* C4: when a name the workflow looks up is absent from the acquired map, the
\* crew is never started and no stage executes, and the call ends by raising;
\* in particular for generate_data without write_neo4j_cypher.
C4_MissingCapabilityFailsFast ==
    \A c \in Calls :
        /\ (/\ provider[c] \in {"ready", "terminated"}
            /\ ~(SeqToSet(Lookups(Impl(c), Wf(c))) \subseteq tools[c]))
           => /\ CountEv(log[c], "kickoff") = 0
              /\ Starts(c) = <<>>
              /\ pc[c] \notin {"kickoff", "next", "stage", "callback", "cleanup", "returned"}
        /\ (/\ provider[c] \in {"ready", "terminated"}
            /\ Wf(c) = "generate_data"
            /\ "write_neo4j_cypher" \notin tools[c])
           => /\ Starts(c) = <<>>
              /\ pc[c] \notin {"kickoff", "next", "stage", "callback", "cleanup", "returned"}

\* generate_data has ended by raising, write_neo4j_cypher was missing
C4_Witness ==
    \E c \in Calls :
        /\ Wf(c) = "generate_data"
        /\ provider[c] = "terminated"
        /\ "write_neo4j_cypher" \notin tools[c]
        /\ pc[c] = "raised"
        /\ Event("lookup", "write_neo4j_cypher") \in SeqToSet(log[c])

\* C5 as stated: every invocation of a usecase workflow runs the cleanup
\* exactly once, after the upload stage.
C5_Original ==
    \A c \in Calls :
        (Ended(c) /\ HasCleanup(Wf(c))) =>
            /\ CountEv(log[c], "cleanup") = 1
            /\ FollowsFinish(log[c], "cleanup", UploadStage)

\* C5 amended: in the usecase workflows the cleanup runs at most once and
\* only after the upload stage has finished; once the upload stage has
\* finished it has run exactly once by the time the call ends, whatever text
\* the upload stage reported; the other workflows never run it.
C5_CleanupOnceAfterUpload ==
    \A c \in Calls :
        pc[c] # "idle" =>
            /\ CountEv(log[c], "cleanup") <= 1
            /\ CountEv(log[c], "cleanup") = 1 =>
                  HasCleanup(Wf(c)) /\ FollowsFinish(log[c], "cleanup", UploadStage)
            /\ (/\ HasCleanup(Wf(c))
                /\ Ended(c)
                /\ Event("finish", UploadStage) \in SeqToSet(log[c]))
               => CountEv(log[c], "cleanup") = 1

\* the upload stage reported a failure text and the cleanup has run
C5_Witness ==
    \E c \in Calls :
        /\ Ended(c)
        /\ HasCleanup(Wf(c))
        /\ outputs[c][UploadStage] = "upload failed"
        /\ CountEv(log[c], "cleanup") = 1
        /\ FollowsFinish(log[c], "cleanup", UploadStage)

\* errors a caller of the workflow can receive when one of its stages fails
StageFailureErrors(impl, wf) ==
    {Deliver(wf, StageError(st, k, m)) :
        st \in SeqToSet(TaskList(impl, wf)), k \in StageExcKinds, m \in Msgs}

\* stages of the workflow whose failure can reach the caller as the error err
PossibleFailingStages(impl, wf, err) ==
    {st \in SeqToSet(TaskList(impl, wf)) :
        \E k \in StageExcKinds, m \in Msgs : Deliver(wf, StageError(st, k, m)) = err}

CleanupFailed(c) == Event("cleanup", "failed") \in SeqToSet(log[c])

StageFailed(c) == CountEv(log[c], "fail") >= 1

\* C6 as stated: the error a caller receives for a cleanup failure is of
\* another kind than the errors it receives for a stage failure.
C6_Original ==
    \A c \in Calls :
        (pc[c] = "raised" /\ CleanupFailed(c)) =>
            outcome[c].error.kind \notin
                {e.kind : e \in StageFailureErrors(Impl(c), Wf(c))}

\* C6 amended: a cleanup failure after a completed pipeline is not swallowed:
\* the call never returns, it raises, with no result; the error is the generic
\* Exception a stage failure also gives, and differs from a stage failure's
\* error only in its text, which quotes the message and class of the cleanup's
\* exception and a traceback through trim_orphan_nodes.
C6_CleanupFailureRaisedAsGenericError ==
    \A c \in Calls :
        CleanupFailed(c) =>
            /\ pc[c] # "returned"
            /\ CountEv(log[c], "finish") = Len(TaskList(Impl(c), Wf(c)))
            /\ Ended(c) =>
                  /\ outcome[c].tag = "raise"
                  /\ outcome[c].value = None
                  /\ outcome[c].error.kind = "Exception"
                  /\ outcome[c].error.kind \in
                        {e.kind : e \in StageFailureErrors(Impl(c), Wf(c))}
                  /\ outcome[c].error.site = "trim_orphan_nodes"
                  /\ outcome[c].error.msg = origin[c].msg
                  /\ outcome[c].error.cause = origin[c].kind
                  /\ outcome[c].error \notin StageFailureErrors(Impl(c), Wf(c))

\* a usecase call has ended by raising after its cleanup failed
C6_Witness ==
    \E c \in Calls :
        /\ pc[c] = "raised"
        /\ CleanupFailed(c)
        /\ Wf(c) = "expand_data_for_usecase"
        /\ origin[c].kind = "ValueError"

\* C7 as stated: the error raised for a stage failure identifies the failing
\* stage: only a failure of that stage can have produced it.
C7_Original ==
    \A c \in Calls :
        (pc[c] = "raised" /\ StageFailed(c)) =>
            PossibleFailingStages(Impl(c), Wf(c), outcome[c].error)
                = {ArgsOf(log[c], "fail")[1]}

\* C7 amended: the error raised for a stage failure carries the message, the
\* class and the raising line (crew.kickoff) of the failed invocation's
\* exception -- as that exception itself in create_mermaid_graph, quoted in
\* the text of a generic Exception elsewhere -- and neither the failing
\* stage's name nor the results of the completed stages: a failure of any
\* stage of the task list can produce the same error.
C7_StageFailureCarriesOriginalMessage ==
    \A c \in Calls :
        (Ended(c) /\ StageFailed(c)) =>
            /\ outcome[c].tag = "raise"
            /\ outcome[c].error.msg = origin[c].msg
            /\ origin[c].msg \in Msgs
            /\ outcome[c].error.site = "kickoff"
            /\ HasTry(Wf(c)) =>
                  outcome[c].error.kind = "Exception" /\ outcome[c].error.cause = origin[c].kind
            /\ ~HasTry(Wf(c)) => outcome[c].error.kind = origin[c].kind
            /\ PossibleFailingStages(Impl(c), Wf(c), outcome[c].error)
                  = SeqToSet(TaskList(Impl(c), Wf(c)))

\* the third of four stages failed and the call has raised
C7_Witness ==
    \E c \in Calls :
        /\ pc[c] = "raised"
        /\ ArgsOf(log[c], "fail") = <<"generate_cypher_task_with_context">>
        /\ CountEv(log[c], "finish") = 2
        /\ origin[c].msg = "m2"

\* C8: when a looked-up capability is missing or a stage fails, the call
\* never returns a pipeline result: it ends by raising an error.
C8_NoSilentRecovery ==
    \A c \in Calls :
        (/\ provider[c] \in {"ready", "terminated"}
         /\ pc[c] # "build"
         /\ \/ ~(SeqToSet(Lookups(Impl(c), Wf(c))) \subseteq tools[c])
            \/ StageFailed(c))
        => /\ pc[c] # "returned"
           /\ outcome[c].tag # "return"
           /\ Ended(c) =>
                 /\ outcome[c].tag = "raise"
                 /\ outcome[c].value = None
                 /\ outcome[c].error # NoError

\* edit_mermaid_graph has raised because a capability was missing
C8_Witness ==
    \E c \in Calls :
        /\ pc[c] = "raised"
        /\ Wf(c) = "edit_mermaid_graph"
        /\ "get_mermaid_config_str" \notin tools[c]
        /\ provider[c] = "terminated"

\* C9: within one call the providers are started at most once, the crew is
\* kicked off at most once, every stage is started at most once and the
\* cleanup is attempted at most once.
C9_NoRetry ==
    \A c \in Calls :
        /\ CountEv(log[c], "acquire") <= 1
        /\ CountEv(log[c], "kickoff") <= 1
        /\ CountEv(log[c], "cleanup") <= 1
        /\ \A st \in StageNames :
              Cardinality({i \in 1..Len(log[c]) : log[c][i] = Event("start", st)}) <= 1
        /\ pc[c] # "idle" => CountEv(log[c], "start") <= Len(TaskList(Impl(c), Wf(c)))

\* a call has ended after a stage failed
C9_Witness ==
    \E c \in Calls :
        /\ pc[c] = "raised"
        /\ StageFailed(c)
        /\ CountEv(log[c], "kickoff") = 1
        /\ CountEv(log[c], "start") = 4

\* C10: a call past its with statement has started the providers exactly
\* once, however many capabilities it looked up.
C10_OneAcquisition ==
    \A c \in Calls :
        pc[c] \notin {"idle", "enter"} => CountEv(log[c], "acquire") = 1

\* a call that looked up seven capabilities for four agents has returned
C10_Witness ==
    \E c \in Calls :
        /\ pc[c] = "returned"
        /\ CountEv(log[c], "lookup") = 7
        /\ CountEv(log[c], "acquire") = 1


\* C11: in every pipeline that has been built, the context of each stage of
\* the task list names only stages that stand earlier in the same task list.
C11_ContextRefersToEarlierStages ==
    \A c \in Calls :
        CountEv(log[c], "kickoff") >= 1 =>
            LET tl == TaskList(Impl(c), Wf(c)) IN
            \A i \in 1..Len(tl) :
                \A d \in Context(Impl(c), Wf(c), tl[i]) :
                    \E j \in 1..(i - 1) : tl[j] = d

\* the stage of the workflow catalog that a task factory implements
CatalogStage(stage) ==
    CASE stage = "read_data_task" -> "ReadExistingSchema"
      [] stage = "create_mermaid_graph_task" -> "ProposeGraphDiagram"
      [] stage = "expanded_mermaid_graph_task" -> "CompositeGraphDiagram"
      [] stage = "edit_mermaid_graph_task" -> "ApplyEditInstructions"
      [] stage \in {"generate_cypher_task", "generate_cypher_task_with_context"} ->
            "BuildIngestQueries"
      [] stage \in {"generate_data_task", "generate_data_task_with_context"} ->
            "UploadData"

\* the stage sequence the workflow catalog gives for a workflow function
CatalogSequence(wf) ==
    CASE wf = "create_mermaid_graph" -> <<"ReadExistingSchema", "ProposeGraphDiagram">>
      [] wf = "edit_mermaid_graph" -> <<"ApplyEditInstructions">>
      [] wf = "generate_data" ->
            <<"ReadExistingSchema", "BuildIngestQueries", "UploadData">>
      [] wf = "generate_data_for_usecase" ->
            <<"ReadExistingSchema", "ProposeGraphDiagram", "BuildIngestQueries", "UploadData">>
      [] wf = "expand_data_for_usecase" ->
            <<"ReadExistingSchema", "CompositeGraphDiagram", "BuildIngestQueries", "UploadData">>

\* C12: a call that returned has executed exactly the stages the catalog
\* lists for its workflow, in that order.
C12_SuccessfulRunFollowsCatalog ==
    \A c \in Calls :
        pc[c] = "returned" =>
            [i \in 1..Len(Starts(c)) |-> CatalogStage(Starts(c)[i])]
                = CatalogSequence(Wf(c))


\* C13: a request to the expand_data_for_usecase endpoint executes the
\* ExpandDataForUsecase stage graph: its second stage is
\* expanded_mermaid_graph_task (CompositeGraphDiagram), not the
\* ProposeGraphDiagram stage of GenerateDataForUsecase.
C13_ExpandEndpointRunsExpandGraph ==
    \A c \in Calls :
        (req[c].endpoint = "expand_data_mcp_only_endpoint" /\ Len(Starts(c)) >= 2) =>
            /\ Starts(c)[2] = "expanded_mermaid_graph_task"
            /\ CatalogStage(Starts(c)[2]) = "CompositeGraphDiagram"


\* the last n events of a log
LastEvents(s, n) == SubSeq(s, Len(s) - n + 1, Len(s))

\* C14: a usecase call that returned ended with: the upload stage finishes,
\* the cleanup runs, the providers are released, the caller gets the result;
\* and in no call does a cleanup follow the release or the end of the call.
C14_CleanupThenReleaseThenReturn ==
    \A c \in Calls :
        /\ (pc[c] = "returned" /\ HasCleanup(Wf(c))) =>
              /\ Len(log[c]) >= 4
              /\ LastEvents(log[c], 4) =
                    <<Event("finish", UploadStage), Event("cleanup", "ok"),
                      Event("release", None), Event("return", None)>>
        /\ \A i \in 1..Len(log[c]) :
              log[c][i].ev \in {"release", "return", "raise"} =>
                  \A j \in (i + 1)..Len(log[c]) : log[c][j].ev # "cleanup"
        /\ pc[c] = "cleanup" => provider[c] = "ready"

\* crews_manager.expand_data_for_usecase has returned after its cleanup
C14_Witness ==
    \E c \in Calls :
        /\ pc[c] = "returned"
        /\ Impl(c) = "crews_manager"
        /\ Wf(c) = "expand_data_for_usecase"
        /\ Event("cleanup", "ok") \in SeqToSet(log[c])
        /\ provider[c] = "terminated"


\* C15: a call that found every capability it looked up, had no stage fail
\* and no cleanup fail ends by returning the output of the last stage of its
\* pipeline, unchanged.
C15_SuccessReturnsFinalStageResult ==
    \A c \in Calls :
        (/\ Ended(c)
         /\ provider[c] = "terminated"
         /\ SeqToSet(Lookups(Impl(c), Wf(c))) \subseteq tools[c]
         /\ ~StageFailed(c)
         /\ ~CleanupFailed(c))
        => /\ pc[c] = "returned"
           /\ outcome[c].tag = "return"
           /\ outcome[c].value \in Texts
           /\ outcome[c].value =
                 outputs[c][TaskList(Impl(c), Wf(c))[Len(TaskList(Impl(c), Wf(c)))]]


\* C16: two calls in flight hold different adapter instances; a step of one
\* call (its release included) changes neither the providers, the
\* capabilities, the outputs nor the control state of the other; a stage
\* in execution always has its call's providers ready; and the context handed
\* to a stage holds outputs of its own call only.
C16_ConcurrentCallsAreIsolated ==
    /\ [](\A c \in Calls :
            /\ \A x \in ctx[c] : x.from = c
            /\ current[c] # None => provider[c] = "ready"
            /\ adapter[c] # None => \A d \in Calls \ {c} : adapter[d] # adapter[c])
    /\ [][\A c \in Calls : \A d \in Calls \ {c} :
            log'[c] # log[c] =>
                /\ provider'[d] = provider[d]
                /\ tools'[d] = tools[d]
                /\ outputs'[d] = outputs[d]
                /\ ctx'[d] = ctx[d]
                /\ pc'[d] = pc[d]
                /\ exc'[d] = exc[d]]_vars

\* one call has released its providers while the other executes a stage
\* that was handed context
C16_Witness ==
    \E c \in Calls : \E d \in Calls \ {c} :
        /\ provider[c] = "terminated"
        /\ Ended(c)
        /\ current[d] # None
        /\ ctx[d] # {}
        /\ provider[d] = "ready"


Orphans(g) == {n \in g.nodes : \A r \in g.rels : r[1] # n /\ r[2] # n}

\* C17: after trim_orphan_nodes has been applied no node without a
\* relationship remains in the database, and applying it to a database it
\* has already been applied to changes nothing.
C17_TrimDeletesOrphansAndIsIdempotent ==
    /\ trims >= 1 =>
          /\ Orphans(store) = {}
          /\ Orphans(prev) = {} => store = prev
          /\ store.nodes = prev.nodes \ Orphans(prev)
    /\ Orphans(TrimOrphanNodes(store)) = {}
    /\ TrimOrphanNodes(TrimOrphanNodes(store)) = TrimOrphanNodes(store)

\* the trim has been applied a second time and has left the database, which
\* holds some but not all of the nodes, as it was
C17_Witness ==
    /\ trims = 2
    /\ prev = store
    /\ store.nodes # {}
    /\ store.nodes # Nodes
    /\ store.rels # {}


\* C18: a step in which log_step_callback or log_task_callback prints changes
\* nothing but the console: the stages started, their outputs, the exception
\* in flight, the outcome, the providers and the database stay as they are,
\* and control stands where a call without observers stands after the stage
\* ("next"); a call without observers prints nothing.
C18_ObserversAreInert ==
    /\ [][\A c \in Calls :
            console'[c] # console[c] =>
                /\ pc[c] \in {"stage", "callback"}
                /\ pc'[c] = (IF pc[c] = "callback" THEN "next" ELSE pc[c])
                /\ UNCHANGED <<req, tools, provider, idx, current, outputs, result,
                               exc, origin, outcome, log, adapter, ctx, store>>]_vars
    /\ [](\A c \in Calls :
            (pc[c] # "idle" /\ ~Observed(Impl(c), Wf(c))) =>
                console[c] = None /\ pc[c] # "callback")

\* a call with observers has returned after its task callback printed
C18_Witness ==
    \E c \in Calls :
        /\ pc[c] = "returned"
        /\ Observed(Impl(c), Wf(c))
        /\ console[c] = "Task completed!"
        /\ Len(Starts(c)) = 4


\* C19: while a stage executes, the providers of its call are ready (acquired
\* and not yet released) and every tool of the agent that runs the stage is
\* in the capability map those providers expose.
C19_StagesRunOnReadyCapabilities ==
    \A c \in Calls :
        current[c] # None =>
            /\ provider[c] = "ready"
            /\ CountEv(log[c], "acquire") = 1
            /\ CountEv(log[c], "release") = 0
            /\ AgentTools(Impl(c), Wf(c), current[c]) # {}
            /\ AgentTools(Impl(c), Wf(c), current[c]) \subseteq tools[c]

\* the edit stage executes while a capability its workflow does not use is
\* missing from the map
C19_Witness ==
    \E c \in Calls :
        /\ current[c] = "edit_mermaid_graph_task"
        /\ "write_neo4j_cypher" \notin tools[c]
        /\ provider[c] = "ready"


IsStageEvent(e) == e.ev \in {"start", "finish", "fail"}

\* the start, finish and fail events of a call, in the order they happened
StageEvents(c) == SelectSeq(log[c], IsStageEvent)

\* C20: the stages of a call never overlap: at most one stage is executing,
\* every finish or failure directly follows the start of the same stage, the
\* first start is the first task of the list, and every later start directly
\* follows the finish of the task that precedes it in the list.
C20_StagesRunOneAtATime ==
    \A c \in Calls :
        pc[c] # "idle" =>
            LET s == StageEvents(c)
                tl == TaskList(Impl(c), Wf(c))
                running == CountEv(s, "start") - CountEv(s, "finish") - CountEv(s, "fail")
            IN /\ running \in {0, 1}
               /\ (running = 1) <=> (current[c] # None)
               /\ \A i \in 1..Len(s) :
                    IF s[i].ev = "start"
                    THEN \E k \in 1..Len(tl) :
                            /\ tl[k] = s[i].arg
                            /\ IF k = 1 THEN i = 1
                               ELSE i > 1 /\ s[i - 1] = Event("finish", tl[k - 1])
                    ELSE i > 1 /\ s[i - 1] = Event("start", s[i].arg)

\* the fourth stage of a pipeline is executing after the first three finished
C20_Witness ==
    \E c \in Calls :
        /\ CountEv(log[c], "start") = 4
        /\ CountEv(log[c], "finish") = 3
        /\ current[c] = "generate_data_task_with_context"


\* the call met an error before or inside its pipeline: a capability it looked
\* up is missing, a name of the body is undefined, or a stage failed
FailedBeforeCleanup(c) ==
    \/ StageFailed(c)
    \/ origin[c].kind \in {"KeyError", "NameError"}
    \/ Event("acquire", "failed") \in SeqToSet(log[c])

\* C21: the cleanup is reached only by a usecase-generation call whose four
\* stages have all finished, none having failed and no lookup having failed;
\* a call in which a lookup or a stage failed never reaches the cleanup.
C21_CleanupOnlyAfterWholePipeline ==
    \A c \in Calls :
        pc[c] # "idle" =>
            /\ (pc[c] = "cleanup" \/ CountEv(log[c], "cleanup") >= 1) =>
                  /\ HasCleanup(Wf(c))
                  /\ Len(TaskList(Impl(c), Wf(c))) = 4
                  /\ ArgsOf(log[c], "finish") = TaskList(Impl(c), Wf(c))
                  /\ CountEv(log[c], "fail") = 0
                  /\ origin[c].kind \notin {"KeyError", "NameError"}
            /\ FailedBeforeCleanup(c) =>
                  /\ pc[c] # "cleanup"
                  /\ CountEv(log[c], "cleanup") = 0

\* a usecase-generation call ended after its upload stage, the fourth, failed
C21_Witness ==
    \E c \in Calls :
        /\ pc[c] = "raised"
        /\ Wf(c) = "expand_data_for_usecase"
        /\ Event("fail", UploadStage) \in SeqToSet(log[c])
        /\ CountEv(log[c], "finish") = 3
        /\ CountEv(log[c], "cleanup") = 0


\* the workflows whose body holds no call of trim_orphan_nodes
NoCleanupWorkflows == {"create_mermaid_graph", "edit_mermaid_graph", "generate_data"}

\* C22: a call of create_mermaid_graph, edit_mermaid_graph or generate_data
\* never reaches the cleanup, on any path, and every step that trims the
\* database or removes a node from it is the cleanup step of a call of one of
\* the two usecase-generation workflows.
C22_OnlyUsecaseWorkflowsCleanUp ==
    /\ [](\A c \in Calls :
            (pc[c] # "idle" /\ Wf(c) \in NoCleanupWorkflows) =>
                /\ pc[c] # "cleanup"
                /\ CountEv(log[c], "cleanup") = 0)
    /\ [][(trims' # trims \/ ~(store.nodes \subseteq store'.nodes)) =>
            \E c \in Calls :
                /\ pc[c] = "cleanup"
                /\ Wf(c) \in {"generate_data_for_usecase", "expand_data_for_usecase"}
                /\ CountEv(log'[c], "cleanup") = CountEv(log[c], "cleanup") + 1]_vars

\* generate_data has returned after its upload and the database, never
\* trimmed, holds a node without a relationship
C22_Witness ==
    \E c \in Calls :
        /\ pc[c] = "returned"
        /\ Wf(c) = "generate_data"
        /\ Event("finish", "generate_data_task") \in SeqToSet(log[c])
        /\ trims = 0
        /\ Orphans(store) # {}


\* C23: once the cleanup of a usecase-generation call has failed, the whole
\* pipeline had finished and its final result was computed; the call cannot
\* return, and when it has ended it has raised one error, handed no value to
\* the caller, and released its providers exactly once.
C23_CleanupFailureLosesResult ==
    \A c \in Calls :
        CleanupFailed(c) =>
            LET tl == TaskList(Impl(c), Wf(c)) IN
            /\ ArgsOf(log[c], "finish") = tl
            /\ CountEv(log[c], "fail") = 0
            /\ result[c] # None
            /\ result[c] = outputs[c][tl[Len(tl)]]
            /\ CountEv(log[c], "cleanup") = 1
            /\ CountEv(log[c], "return") = 0
            /\ CountEv(log[c], "release") <= 1
            /\ Ended(c) =>
                  /\ pc[c] = "raised"
                  /\ outcome[c].tag = "raise"
                  /\ outcome[c].value = None
                  /\ outcome[c].error # NoError
                  /\ CountEv(log[c], "raise") = 1
                  /\ CountEv(log[c], "release") = 1
                  /\ CountEv(log[c], "acquire") = 1
                  /\ provider[c] = "terminated"

\* crew_mcp_only.generate_data_for_usecase raised after its upload succeeded
\* and its cleanup failed
C23_Witness ==
    \E c \in Calls :
        /\ pc[c] = "raised"
        /\ CleanupFailed(c)
        /\ Impl(c) = "crew_mcp_only"
        /\ Wf(c) = "generate_data_for_usecase"
        /\ result[c] = "upload succeeded"
        /\ outcome[c].value = None
        /\ provider[c] = "terminated"


\* the relationships of g that start or end at n
RelsAt(g, n) == {r \in g.rels : r[1] = n \/ r[2] = n}

WrappedWorkflows ==
    {"edit_mermaid_graph", "generate_data", "generate_data_for_usecase",
     "expand_data_for_usecase"}

\* the call failed on a missing capability, in a stage or in the cleanup
FailedInBody(c) ==
    origin[c].kind = "KeyError" \/ StageFailed(c) \/ CleanupFailed(c)

\* C25: a call that failed on a missing capability, in a stage or in the
\* cleanup raises exactly one error and returns nothing; in the four wrapped
\* workflows that error is a plain Exception whatever the cause was, in
\* create_mermaid_graph it is the exception that was raised, unchanged.
C25_OneErrorWrappedOrOriginal ==
    \A c \in Calls :
        /\ (pc[c] # "idle" /\ FailedInBody(c)) =>
              /\ pc[c] # "returned"
              /\ CountEv(log[c], "return") = 0
              /\ CountEv(log[c], "raise") <= 1
              /\ Wf(c) = "create_mermaid_graph" => ~CleanupFailed(c)
        /\ (pc[c] = "raised" /\ FailedInBody(c)) =>
              /\ CountEv(log[c], "raise") = 1
              /\ outcome[c].tag = "raise"
              /\ outcome[c].value = None
              /\ IF Wf(c) \in WrappedWorkflows
                 THEN /\ outcome[c].error.kind = "Exception"
                      /\ outcome[c].error.cause = origin[c].kind
                 ELSE /\ Wf(c) = "create_mermaid_graph"
                      /\ outcome[c].error = origin[c]
                      /\ outcome[c].error.kind \in {"KeyError"} \cup StageExcKinds
                      /\ outcome[c].error.cause = "none"

\* create_mermaid_graph raised the KeyError of a missing capability as it was
C25_Witness ==
    \E c \in Calls :
        /\ pc[c] = "raised"
        /\ Wf(c) = "create_mermaid_graph"
        /\ origin[c].kind = "KeyError"
        /\ outcome[c].error.kind = "KeyError"
        /\ CountEv(log[c], "raise") = 1

====
